---- MODULE Spec2Model ----
(***************************************************************************)
(* Model of src/lambda/index.py: the chat relay handler lambda_handler,    *)
(* the lazily initialised global bedrock_client and the pure function      *)
(* extract_region_from_arn.                                                *)
(*                                                                         *)
(* Representation of Python values                                         *)
(*   str built by an f-string   a sequence of pieces, concatenated by \o   *)
(*   leaf str (message, ...)    a TLA+ string                              *)
(*   JSON object / list / null  [dict |-> r] / [list |-> s] / [null |-> T] *)
(*   text (a str holding a      [json |-> v] when it parses as JSON to v,  *)
(*     document)                [chars |-> s] when it is not JSON          *)
(*   bytes                      [utf8 |-> BOOLEAN, text |-> text]          *)
(*   an ARN                     a sequence of tokens; ":" is the colon and *)
(*                              every other token stands for a run of      *)
(*                              characters without a colon                 *)
(***************************************************************************)
EXTENDS Integers, Sequences, FiniteSets, TLC

VARIABLES
    bedrock_client,     \* the module global: None or the constructed handle
    invocations,        \* number of lambda_handler invocations of this process
    regionDerivations,  \* calls of extract_region_from_arn made by lambda_handler
    clientConstructions,\* calls of boto3.client made by lambda_handler
    call,               \* inputs of the latest invocation
    result,             \* what the latest invocation returned or raised
    posts,              \* outbound requests issued by the latest invocation
    arn,                \* argument of extract_region_from_arn (SpecRegion)
    region              \* its return value (SpecRegion)

vars == <<bedrock_client, invocations, regionDerivations, clientConstructions,
          call, result, posts, arn, region>>

\* ------------------------------------------------------------------ bounds
MaxInvocations == 2
MaxHistory == 1
MaxSegments == 5

\* ------------------------------------------------------- program constants
MaxNewTokens == 512
TimeoutSeconds == 30

None == [none |-> TRUE]
Unused == [kind |-> "unused"]

\* ------------------------------------------------- extract_region_from_arn
Colon == ":"

DefaultRegion == <<"us-east-1">>

\* the literal part of the regular expression 'arn:aws:lambda:([^:]+):'
ArnPattern == <<"arn", Colon, "aws", Colon, "lambda", Colon>>

\* the literal part matches the subject at position i
LiteralAt(s, i) ==
    /\ i + Len(ArnPattern) - 1 <= Len(s)
    /\ \A k \in 1..Len(ArnPattern) : s[i + k - 1] = ArnPattern[k]

\* index of the first colon at or after position j, Len(s) + 1 when there is none
RECURSIVE NextColon(_, _)
NextColon(s, j) ==
    IF j > Len(s) THEN Len(s) + 1
    ELSE IF s[j] = Colon THEN j
    ELSE NextColon(s, j + 1)

\* the whole expression matches at position i: the literal, then a non-empty
\* greedy run without a colon, then a colon
MatchAt(s, i) ==
    /\ LiteralAt(s, i)
    /\ LET g == i + Len(ArnPattern)
           e == NextColon(s, g)
       IN  e > g /\ e <= Len(s)

\* group(1) of the match at position i
Group1(s, i) ==
    LET g == i + Len(ArnPattern)
    IN  SubSeq(s, g, NextColon(s, g) - 1)

\* re.search: the leftmost position at which the expression matches, 0 for no match
ReSearch(s) ==
    LET hits == {i \in 1..Len(s) : MatchAt(s, i)}
    IN  IF hits = {} THEN 0
        ELSE CHOOSE i \in hits : \A j \in hits : i <= j

extract_region_from_arn(a) ==
    LET match == ReSearch(a)
    IN  IF match # 0 THEN Group1(a, match) ELSE DefaultRegion

\* ---------------------------------------------------------- Python values
JObj(r) == [dict |-> r]
JArr(s) == [list |-> s]
JNull == [null |-> TRUE]
IsDict(v) == DOMAIN v = {"dict"}
IsList(v) == DOMAIN v = {"list"}

Returned(v) == [flow |-> "return", value |-> v]
Raised(type, msg) == [flow |-> "raise", exc |-> [type |-> type, msg |-> msg]]

\* json.dumps(v) and json.loads(text)
json_dumps(v) == [json |-> v]
json_loads(text) ==
    IF "json" \in DOMAIN text THEN Returned(text.json)
    ELSE Raised("JSONDecodeError", <<"Expecting value: line 1 column 1 (char 0)">>)

\* str.encode('utf-8') and bytes.decode('utf-8')
Encode(text) == [utf8 |-> TRUE, text |-> text]
Decode(bytes) ==
    IF bytes.utf8 THEN Returned(bytes.text)
    ELSE Raised("UnicodeDecodeError", <<"'utf-8' codec can't decode byte">>)

\* d[key] and d.get(key, default) of a value obtained from json.loads
Subscript(d, key) ==
    IF ~IsDict(d) THEN Raised("TypeError", <<"indices must be integers">>)
    ELSE IF key \notin DOMAIN d.dict THEN Raised("KeyError", <<"'", key, "'">>)
    ELSE Returned(d.dict[key])
Get(d, key, default) ==
    IF ~IsDict(d) THEN Raised("AttributeError", <<"object has no attribute 'get'">>)
    ELSE IF key \in DOMAIN d.dict THEN Returned(d.dict[key])
    ELSE Returned(default)

\* the exception classes the except clauses tell apart, each with its base class
BaseOf ==
    [HTTPError |-> "URLError", URLError |-> "OSError", TimeoutError |-> "OSError",
     OSError |-> "Exception", JSONDecodeError |-> "ValueError",
     UnicodeDecodeError |-> "ValueError", ValueError |-> "Exception",
     KeyError |-> "Exception", TypeError |-> "Exception",
     AttributeError |-> "Exception", ClientInitError |-> "Exception",
     Exception |-> "BaseException"]

RECURSIVE IsInstance(_, _)
IsInstance(type, class) ==
    IF type = class THEN TRUE
    ELSE IF type \notin DOMAIN BaseOf THEN FALSE
    ELSE IsInstance(BaseOf[type], class)

\* ---------------------------------------------------------------- inputs
Messages == {"hi", "yo"}
Turns == {[role |-> "user", content |-> "q"], [role |-> "assistant", content |-> "a"]}
Histories == UNION {[1..n -> Turns] : n \in 0..MaxHistory}

\* event['body']: not JSON, JSON that is no object, an object without 'message',
\* and objects with 'message' and no, a null or a list conversationHistory
Bodies ==
    {[chars |-> "not json"], json_dumps(JArr(<<>>)), json_dumps(JObj([other |-> "x"]))}
    \cup {json_dumps(JObj([message |-> m])) : m \in Messages}
    \cup {json_dumps(JObj([message |-> "hi", conversationHistory |-> JNull]))}
    \cup {json_dumps(JObj([message |-> "hi", conversationHistory |-> JArr(h)])) :
              h \in Histories}

\* event['requestContext'] when the event has one
RequestContexts ==
    {[other |-> "x"],
     [authorizer |-> [other |-> "x"]],
     [authorizer |-> [claims |-> [other |-> "x"]]],
     [authorizer |-> [claims |-> [email |-> "a@example.com"]]]}

Events ==
    {[other |-> "x"]}
    \cup {[body |-> b] : b \in Bodies}
    \cup {[body |-> b, requestContext |-> rc] : b \in Bodies, rc \in RequestContexts}

\* context.invoked_function_arn
Contexts ==
    {[invoked_function_arn |-> a] :
        a \in {<<"arn", Colon, "aws", Colon, "lambda", Colon, "ap-northeast-1", Colon,
                 "123", Colon, "function", Colon, "f">>,
               <<"x", "arn", Colon, "aws", Colon, "lambda", Colon, "eu-west-1", Colon>>,
               <<"malformed">>}}

\* boto3.client('bedrock-runtime', region_name=region): returns a handle or raises
BotoOutcomes == {[kind |-> "client"], [kind |-> "raise"]}

\* what the generation service and the network do with the outbound request
ResponseBodies ==
    {Encode(json_dumps(JObj([generated_text |-> g]))) : g \in {"hello", ""}}
    \cup {Encode(json_dumps(JObj([other |-> "x"]))),
          Encode(json_dumps(JArr(<<>>))),
          Encode([chars |-> "not json"]),
          [utf8 |-> FALSE, text |-> [chars |-> "?"]]}

ErrorBodies ==
    {Encode([chars |-> "overloaded"]),
     Encode(json_dumps(JObj([detail |-> "bad request"]))),
     [utf8 |-> FALSE, text |-> [chars |-> "?"]]}

NetOutcomes ==
    {[kind |-> "response", data |-> d] : d \in ResponseBodies}
    \cup {[kind |-> "http_error", code |-> c[1], reason |-> c[2], fp |-> b] :
              c \in {<<"503", "Service Unavailable">>}, b \in ErrorBodies}
    \cup {[kind |-> "http_error", code |-> "422", reason |-> "Unprocessable Entity",
           fp |-> Encode(json_dumps(JObj([detail |-> "bad request"])))]}
    \cup {[kind |-> "url_error", reason |-> r] :
              r \in {"[Errno 111] Connection refused",
                     "[Errno -2] Name or service not known",
                     "timed out"}}
    \cup {[kind |-> "timeout", during |-> d] : d \in {"getresponse", "read"}}

\* ------------------------------------------------------------ lambda_handler
API_ENDPOINT == "https://a1ae-34-124-132-250.ngrok-free.app/generate"

CorsHeaders ==
    ("Content-Type" :> "application/json")
    @@ ("Access-Control-Allow-Origin" :> "*")
    @@ ("Access-Control-Allow-Headers" :>
            "Content-Type,X-Amz-Date,Authorization,X-Api-Key,X-Amz-Security-Token")
    @@ ("Access-Control-Allow-Methods" :> "OPTIONS,POST")

Suggestion ==
    "API endpoint may be unresponsive or too slow to respond within timeout limits."

\* the global is initialised again on every invocation
NeedsInit_Always(client) == TRUE

\* if bedrock_client is None:
NeedsInit(client) == client = None

\* the lazy initialisation of the global: the region is derived and boto3.client
\* called only when the global is None; an exception leaves the global None
LazyInit(client, context, boto) ==
    IF ~NeedsInit(client)
    THEN [flow |-> "ok", client |-> client, derivations |-> 0, constructions |-> 0]
    ELSE LET r == extract_region_from_arn(context.invoked_function_arn)
         IN  IF boto.kind = "client"
             THEN [flow |-> "ok", client |-> [region |-> r],
                   derivations |-> 1, constructions |-> 1]
             ELSE [flow |-> "raise", client |-> client,
                   exc |-> [type |-> "ClientInitError",
                            msg |-> <<"could not create the client">>],
                   derivations |-> 1, constructions |-> 1]

\* user_info = event['requestContext']['authorizer']['claims'], read only when the
\* event has a requestContext with an authorizer
ReadUserInfo(event) ==
    IF "requestContext" \in DOMAIN event /\ "authorizer" \in DOMAIN event.requestContext
    THEN IF "claims" \in DOMAIN event.requestContext.authorizer
         THEN Returned(event.requestContext.authorizer.claims)
         ELSE Raised("KeyError", <<"'", "claims", "'">>)
    ELSE Returned(None)

\* body = json.loads(event['body']); message = body['message'];
\* conversation_history = body.get('conversationHistory', [])
ParseRequest(event) ==
    IF "body" \notin DOMAIN event THEN Raised("KeyError", <<"'", "body", "'">>)
    ELSE LET body == json_loads(event.body)
         IN  IF body.flow = "raise" THEN body
             ELSE LET message == Subscript(body.value, "message")
                      conversation_history ==
                          Get(body.value, "conversationHistory", JArr(<<>>))
                  IN  IF message.flow = "raise" THEN message
                      ELSE Returned([message |-> message.value,
                                     conversation_history |-> conversation_history.value])

\* the user turn is inserted in front of the history
WithUserTurn_Prepend(conversation_history, message) ==
    IF ~IsList(conversation_history)
    THEN Raised("AttributeError", <<"object has no attribute 'copy'">>)
    ELSE Returned(<<[role |-> "user", content |-> message]>>
                  \o conversation_history.list)

\* messages = conversation_history.copy(); messages.append({role: user, ...})
WithUserTurn(conversation_history, message) ==
    IF ~IsList(conversation_history)
    THEN Raised("AttributeError", <<"object has no attribute 'copy'">>)
    ELSE Returned(Append(conversation_history.list,
                         [role |-> "user", content |-> message]))

\* the prompt is taken from the first turn of the conversation
RequestData_FirstTurn(message, messages) ==
    [prompt |-> messages[1].content,
     max_new_tokens |-> MaxNewTokens,
     temperature |-> "0.7",
     top_p |-> "0.9",
     do_sample |-> TRUE]

\* request_data, built where message and messages are both in scope
RequestData(message, messages) ==
    [prompt |-> message,
     max_new_tokens |-> MaxNewTokens,
     temperature |-> "0.7",
     top_p |-> "0.9",
     do_sample |-> TRUE]

\* urllib.request.Request(API_ENDPOINT, data=data, headers=headers, method='POST')
Request(request_data) ==
    [url |-> API_ENDPOINT,
     data |-> Encode(json_dumps(JObj(request_data))),
     headers |-> ("Content-Type" :> "application/json"),
     method |-> "POST",
     timeout |-> TimeoutSeconds]

\* the request is sent a second time when the first attempt fails
Urlopen_Retry(req, net) ==
    [sent |-> IF net.kind = "response" THEN <<req>> ELSE <<req, req>>,
     out  |-> CASE net.kind = "response" -> Returned(net.data)
            [] net.kind = "http_error" ->
                  [flow |-> "raise",
                   exc |-> [type |-> "HTTPError", code |-> net.code,
                            reason |-> net.reason, fp |-> net.fp,
                            msg |-> <<"HTTP Error ", net.code, ": ", net.reason>>]]
            [] net.kind = "url_error" ->
                  Raised("URLError", <<"<urlopen error ", net.reason, ">">>)
            [] net.kind = "timeout" ->
                  Raised("TimeoutError", <<"timed out">>)]

\* with urllib.request.urlopen(req, timeout=30) as response: response.read().
\* One request is sent. A 2xx answer gives the bytes read; another status raises
\* HTTPError; a failure to connect or to send raises URLError; the time limit
\* expiring while the response is awaited or read raises TimeoutError, which is
\* an OSError and no URLError.
Urlopen(req, net) ==
    [sent |-> <<req>>,
     out  |-> CASE net.kind = "response" -> Returned(net.data)
            [] net.kind = "http_error" ->
                  [flow |-> "raise",
                   exc |-> [type |-> "HTTPError", code |-> net.code,
                            reason |-> net.reason, fp |-> net.fp,
                            msg |-> <<"HTTP Error ", net.code, ": ", net.reason>>]]
            [] net.kind = "url_error" ->
                  Raised("URLError", <<"<urlopen error ", net.reason, ">">>)
            [] net.kind = "timeout" ->
                  Raised("TimeoutError", <<"timed out">>)]

\* the response is not validated
IsFalsy_Never(assistant_response) == FALSE

\* if not assistant_response:
IsFalsy(assistant_response) == assistant_response = ""

\* lines 83-115: decode and parse the response, validate it, append the assistant
\* turn and build the success response
OnResponse(response_data, messages) ==
    LET text == Decode(response_data)
    IN  IF text.flow = "raise" THEN text
        ELSE LET response_body == json_loads(text.value)
             IN  IF response_body.flow = "raise" THEN response_body
                 ELSE LET assistant_response ==
                              Get(response_body.value, "generated_text", "")
                      IN  IF assistant_response.flow = "raise" THEN assistant_response
                          ELSE IF IsFalsy(assistant_response.value)
                          THEN Raised("Exception",
                                      <<"No response content from the model">>)
                          ELSE Returned(
                                  [statusCode |-> 200,
                                   headers |-> CorsHeaders,
                                   body |-> json_dumps(JObj(
                                       [success |-> TRUE,
                                        response |-> assistant_response.value,
                                        conversationHistory |->
                                            JArr(Append(messages,
                                                [role |-> "assistant",
                                                 content |-> assistant_response.value]))]))])

\* the statements of the try block before the outbound call: they end in an
\* exception or in the request to send
BeforeCall(event, init) ==
    IF init.flow = "raise" THEN [flow |-> "raise", exc |-> init.exc]
    ELSE LET user_info == ReadUserInfo(event)
         IN  IF user_info.flow = "raise" THEN user_info
             ELSE LET parsed == ParseRequest(event)
                  IN  IF parsed.flow = "raise" THEN parsed
                      ELSE LET messages == WithUserTurn(parsed.value.conversation_history,
                                                        parsed.value.message)
                           IN  IF messages.flow = "raise" THEN messages
                               ELSE [flow |-> "call",
                                     messages |-> messages.value,
                                     req |-> Request(RequestData(parsed.value.message,
                                                                 messages.value))]

\* the try block: [out |-> what it returns or raises, sent |-> the requests it sent]
TryBlock(event, init, net) ==
    LET pre == BeforeCall(event, init)
    IN  IF pre.flow = "raise" THEN [out |-> pre, sent |-> <<>>]
        ELSE LET response == Urlopen(pre.req, net)
             IN  [sent |-> response.sent,
                  out  |-> IF response.out.flow = "raise" THEN response.out
                           ELSE OnResponse(response.out.value, pre.messages)]

ErrorResponse(fields) ==
    Returned([statusCode |-> 500, headers |-> CorsHeaders,
              body |-> json_dumps(JObj(fields))])

\* except HTTPError as error: an exception raised in this clause is not caught
\* by the clauses that follow it
ExceptHTTPError(error) ==
    LET error_body == Decode(error.fp)
    IN  IF error_body.flow = "raise" THEN error_body
        ELSE ErrorResponse([success |-> FALSE,
                            error |-> <<"API Error: ", error.code, " - ", error.reason>>,
                            details |-> error_body.value])

\* except URLError as error:
ExceptURLError(error) ==
    ErrorResponse([success |-> FALSE,
                   error |-> <<"Connection Error: ">> \o error.msg,
                   suggestion |-> Suggestion])

\* except Exception as error:
ExceptException(error) ==
    ErrorResponse([success |-> FALSE, error |-> error.msg])

\* the except clauses, tried in the order they are written
ExceptClauses(out) ==
    IF out.flow = "return" THEN out
    ELSE IF IsInstance(out.exc.type, "HTTPError") THEN ExceptHTTPError(out.exc)
    ELSE IF IsInstance(out.exc.type, "URLError") THEN ExceptURLError(out.exc)
    ELSE IF IsInstance(out.exc.type, "Exception") THEN ExceptException(out.exc)
    ELSE out

\* one whole invocation of lambda_handler(event, context), given what boto3.client
\* and the network do and the value of the global when it starts
lambda_handler(event, context, boto, net, client) ==
    LET init == LazyInit(client, context, boto)
        try  == TryBlock(event, init, net)
    IN  [result |-> ExceptClauses(try.out),
         posts |-> try.sent,
         client |-> init.client,
         derivations |-> init.derivations,
         constructions |-> init.constructions]

\* the invocation reaches the outbound call
ReachesCall(event, context, boto, client) ==
    BeforeCall(event, LazyInit(client, context, boto)).flow = "call"

\* the values the global can take
Clients ==
    {None} \cup {[region |-> extract_region_from_arn(c.invoked_function_arn)] :
                    c \in Contexts}

\* the inputs of an invocation that starts with the global equal to client: the
\* context is read, and boto3.client called, only if the global needs
\* initialising; the network answers only a request that is sent
InputsFor(client) ==
    {x \in Events
           \X (IF NeedsInit(client) THEN Contexts ELSE {Unused})
           \X (IF NeedsInit(client) THEN BotoOutcomes ELSE {Unused})
           \X (NetOutcomes \cup {Unused}) :
        (x[4] = Unused) <=> ~ReachesCall(x[1], x[2], x[3], client)}

\* every run of lambda_handler: the value of the global when it starts, the
\* inputs and what the invocation does (evaluated once)
Runs ==
    UNION {{[client |-> c, x |-> x, h |-> lambda_handler(x[1], x[2], x[3], x[4], c)] :
               x \in InputsFor(c)} : c \in Clients}

\* the runs that start with the global equal to client
RunsOf(client) == {r \in Runs : r.client = client}

Idle ==
    /\ bedrock_client = None
    /\ invocations = 0
    /\ regionDerivations = 0
    /\ clientConstructions = 0
    /\ call = None
    /\ result = None
    /\ posts = <<>>

Init ==
    /\ Idle
    /\ arn = None
    /\ region = None

\* an invocation of lambda_handler in this process
LambdaHandler ==
    /\ invocations < MaxInvocations
    /\ \E run \in RunsOf(bedrock_client) :
          LET x == run.x
              h == run.h
          IN  /\ bedrock_client' = h.client
              /\ regionDerivations' = regionDerivations + h.derivations
              /\ clientConstructions' = clientConstructions + h.constructions
              /\ call' = [event |-> x[1], context |-> x[2], boto |-> x[3],
                          net |-> x[4], client |-> bedrock_client]
              /\ result' = h.result
              /\ posts' = h.posts
    /\ invocations' = invocations + 1
    /\ UNCHANGED <<arn, region>>

Next == LambdaHandler

Spec == Init /\ [][Next]_vars

\* ------------------------------------------------------- SpecRegion inputs
Words == {<<>>, <<"arn">>, <<"aws">>, <<"lambda">>, <<"s3">>,
          <<"eu-west-1">>, <<"x", "arn">>}

RECURSIVE Join(_)
Join(segs) ==
    IF Len(segs) = 0 THEN <<>>
    ELSE IF Len(segs) = 1 THEN segs[1]
    ELSE segs[1] \o <<Colon>> \o Join(Tail(segs))

\* the identifiers of n colon-delimited segments
ArnInputs(n) == {Join(segs) : segs \in [1..n -> Words]}

\* the argument is one of the identifiers the handler is invoked with, or any
\* identifier of up to MaxSegments segments
InitRegion ==
    /\ Idle
    /\ \/ arn \in {c.invoked_function_arn : c \in Contexts}
       \/ \E n \in 1..MaxSegments : arn \in ArnInputs(n)
    /\ region = None

ExtractRegion ==
    /\ region = None
    /\ region' = [value |-> extract_region_from_arn(arn)]
    /\ UNCHANGED <<bedrock_client, invocations, regionDerivations,
                   clientConstructions, call, result, posts, arn>>

NextRegion == ExtractRegion

SpecRegion == InitRegion /\ [][NextRegion]_vars

\* =================================================================== claims
\* what the latest invocation was given, read off the inputs
Invoked == call # None

HasJsonBody(event) ==
    /\ "body" \in DOMAIN event
    /\ "json" \in DOMAIN event.body
    /\ IsDict(event.body.json)

HasMessage(event) == HasJsonBody(event) /\ "message" \in DOMAIN event.body.json.dict

InputMessage(event) == event.body.json.dict.message

HistoryIsSequence(event) ==
    "conversationHistory" \in DOMAIN event.body.json.dict
        => IsList(event.body.json.dict.conversationHistory)

InputHistory(event) ==
    IF "conversationHistory" \in DOMAIN event.body.json.dict
    THEN event.body.json.dict.conversationHistory.list
    ELSE <<>>

\* the generated_text of a 2xx answer, "" when the answer is a JSON object without one
AnswersJsonObject(net) ==
    /\ net.kind = "response"
    /\ net.data.utf8
    /\ "json" \in DOMAIN net.data.text
    /\ IsDict(net.data.text.json)

GeneratedText(net) ==
    IF "generated_text" \in DOMAIN net.data.text.json.dict
    THEN net.data.text.json.dict.generated_text
    ELSE ""

IsResponse(r) ==
    /\ r.flow = "return"
    /\ DOMAIN r.value = {"statusCode", "headers", "body"}
    /\ "json" \in DOMAIN r.value.body
    /\ IsDict(r.value.body.json)

BodyOf(r) == r.value.body.json.dict

\* C1: every invocation returns {statusCode, headers, body} whose body is a JSON
\* object with a boolean 'success'; no exception escapes lambda_handler, whatever
\* the event and whatever the outbound call does.
C1_NoExceptionEscapes ==
    Invoked =>
        /\ IsResponse(result)
        /\ "success" \in DOMAIN BodyOf(result)
        /\ BodyOf(result).success \in BOOLEAN

\* C2: a valid request whose outbound call succeeds with a non-empty generated_text
\* g gets status 200, success = true, response = g and conversationHistory = the
\* input history, then the user turn, then the assistant turn.
C2_SuccessAppendsTurns ==
    ( /\ Invoked
      /\ HasMessage(call.event)
      /\ HistoryIsSequence(call.event)
      /\ posts # <<>>
      /\ AnswersJsonObject(call.net)
      /\ GeneratedText(call.net) # "" )
    => /\ IsResponse(result)
       /\ result.value.statusCode = 200
       /\ BodyOf(result) =
             [success |-> TRUE,
              response |-> GeneratedText(call.net),
              conversationHistory |->
                  JArr(InputHistory(call.event)
                       \o <<[role |-> "user", content |-> InputMessage(call.event)]>>
                       \o <<[role |-> "assistant",
                             content |-> GeneratedText(call.net)]>>)]

C2_Witness ==
    /\ Invoked
    /\ HasMessage(call.event)
    /\ HistoryIsSequence(call.event)
    /\ Len(InputHistory(call.event)) >= 1
    /\ posts # <<>>
    /\ AnswersJsonObject(call.net)
    /\ GeneratedText(call.net) = "hello"
    /\ IsResponse(result)
    /\ result.value.statusCode = 200

\* C3: whenever the service answers the outbound POST with a non-2xx status (code c,
\* reason r, raw body b) the handler returns status 500 with exactly the fields
\* success = false, error = "API Error: c - r" and details = b.
C3_HttpErrorResponse ==
    (Invoked /\ call.net.kind = "http_error")
    => /\ IsResponse(result)
       /\ result.value.statusCode = 500
       /\ BodyOf(result) =
             [success |-> FALSE,
              error |-> <<"API Error: ", call.net.code, " - ", call.net.reason>>,
              details |-> call.net.fp.text]

\* C4: every network-level failure of the outbound call (connection refused, DNS
\* failure, the time limit expiring while connecting or while the response is
\* awaited or read) gets status 500 with exactly the fields success = false,
\* error = "Connection Error: <message>" and the fixed suggestion.
C4_NetworkFailureResponse ==
    (Invoked /\ call.net.kind \in {"url_error", "timeout"})
    => /\ IsResponse(result)
       /\ result.value.statusCode = 500
       /\ DOMAIN BodyOf(result) = {"success", "error", "suggestion"}
       /\ BodyOf(result).success = FALSE
       /\ BodyOf(result).error[1] = "Connection Error: "
       /\ BodyOf(result).suggestion = Suggestion

IsGenericError(r) ==
    /\ IsResponse(r)
    /\ r.value.statusCode = 500
    /\ DOMAIN BodyOf(r) = {"success", "error"}
    /\ BodyOf(r).success = FALSE

IsSuccess(r) == IsResponse(r) /\ r.value.statusCode = 200

\* C5: a failure that is neither a remote HTTP error nor a network failure (event
\* body not JSON, 'message' absent, remote response not JSON, generated_text missing
\* or empty, ...) gets status 500 with exactly the fields success = false and error;
\* a missing or empty generated_text gets the error "No response content from the
\* model" and never a 200.
C5_GenericFailure ==
    Invoked =>
        /\ (call.net.kind \notin {"http_error", "url_error", "timeout"}
              /\ ~IsSuccess(result))
            => IsGenericError(result)
        /\ ~HasMessage(call.event) => IsGenericError(result)
        /\ (posts # <<>> /\ call.net.kind = "response" /\ ~AnswersJsonObject(call.net))
            => IsGenericError(result)
        /\ (posts # <<>> /\ AnswersJsonObject(call.net) /\ GeneratedText(call.net) = "")
            => /\ IsGenericError(result)
               /\ BodyOf(result).error = <<"No response content from the model">>

C5_Witness ==
    /\ Invoked
    /\ posts # <<>>
    /\ AnswersJsonObject(call.net)
    /\ "generated_text" \in DOMAIN call.net.data.text.json.dict
    /\ GeneratedText(call.net) = ""
    /\ IsGenericError(result)

\* C6 as stated: the region is derived and the handle constructed at most once per
\* process, whatever the outcome of each invocation.
C6_AtMostOncePerProcess ==
    /\ regionDerivations <= 1
    /\ clientConstructions <= 1

\* C6 as amended: once the handle is set, no invocation derives the region, calls
\* boto3.client or changes the global again (an invocation whose initialisation
\* raises leaves the global None, and the next invocation initialises again).
C6_OnceSetNeverAgain ==
    [][bedrock_client # None =>
          /\ bedrock_client' = bedrock_client
          /\ regionDerivations' = regionDerivations
          /\ clientConstructions' = clientConstructions]_vars

C6_Witness ==
    /\ invocations >= 2
    /\ call.client # None
    /\ bedrock_client = call.client
    /\ regionDerivations = 1

\* the colon-delimited segments of an identifier, as str.split(':') gives them
RECURSIVE Split(_)
Split(s) ==
    LET e == NextColon(s, 1)
    IN  IF e > Len(s) THEN <<s>>
        ELSE <<SubSeq(s, 1, e - 1)>> \o Split(SubSeq(s, e + 1, Len(s)))

HasArnForm(a) ==
    LET segs == Split(a)
    IN  /\ Len(segs) >= 5
        /\ segs[1] = <<"arn">>
        /\ segs[2] = <<"aws">>
        /\ segs[3] # <<>>
        /\ segs[4] # <<>>

\* C7: extract_region_from_arn returns the fourth colon-delimited segment of every
\* identifier of the form arn:aws:<service>:<region>:..., and us-east-1 for every
\* other identifier, an identifier that holds the pattern after a prefix included.
C7_FourthSegmentOrDefault ==
    region # None =>
        region.value = IF HasArnForm(arn) THEN Split(arn)[4] ELSE <<"us-east-1">>

SameButRequestContext(e1, e2) ==
    /\ ("body" \in DOMAIN e1) = ("body" \in DOMAIN e2)
    /\ "body" \in DOMAIN e1 => e1.body = e2.body

SameEnvironment(x) ==
    /\ x[2] = call.context
    /\ x[3] = call.boto
    /\ x[4] = call.net \/ x[4] = Unused \/ call.net = Unused

\* C8: two events that differ only in requestContext get the same outbound request
\* and the same response. Stated against the event without requestContext, one of
\* the events of the claim: every event gets what that event gets.
C8_RequestContextIgnored ==
    Invoked =>
        \A r \in RunsOf(call.client) :
            ( /\ "requestContext" \notin DOMAIN r.x[1]
              /\ SameButRequestContext(r.x[1], call.event)
              /\ SameEnvironment(r.x) )
            => /\ r.h.posts = posts
               /\ r.h.result = result

\* C9: an invocation issues at most one outbound POST, also after an HTTP error, a
\* network failure, a timeout or an empty generated_text, and none at all when it
\* fails before the call (client initialisation, body not JSON, 'message' absent).
C9_AtMostOnePost ==
    /\ Len(posts) <= 1
    /\ \A i \in 1..Len(posts) : posts[i].method = "POST"
    /\ (Invoked /\ (call.boto.kind = "raise" \/ ~HasMessage(call.event)))
        => posts = <<>>

C9_Witness ==
    /\ Invoked
    /\ call.net.kind \in {"http_error", "url_error", "timeout"}
    /\ Len(posts) = 1

\* C10: the outbound request is {prompt: message, max_new_tokens: 512, temperature:
\* 0.7, top_p: 0.9, do_sample: true}; requests with the same message and different
\* conversationHistory produce the same outbound request, and the returned
\* conversationHistory starts with the supplied history.
C10_RequestFromMessageOnly ==
    (Invoked /\ posts # <<>>) =>
        /\ posts[1].data =
              Encode(json_dumps(JObj([prompt |-> InputMessage(call.event),
                                      max_new_tokens |-> 512,
                                      temperature |-> "0.7",
                                      top_p |-> "0.9",
                                      do_sample |-> TRUE])))
        /\ \A r \in Runs :
              (r.h.posts # <<>> /\ InputMessage(r.x[1]) = InputMessage(call.event))
              => r.h.posts = posts
        /\ IsSuccess(result) =>
              LET h == InputHistory(call.event)
              IN  SubSeq(BodyOf(result).conversationHistory.list, 1, Len(h)) = h

C10_Witness ==
    /\ Invoked
    /\ posts # <<>>
    /\ IsSuccess(result)
    /\ Len(InputHistory(call.event)) >= 1
    /\ \E r \in Runs :
          /\ r.h.posts # <<>>
          /\ InputMessage(r.x[1]) = InputMessage(call.event)
          /\ InputHistory(r.x[1]) # InputHistory(call.event)

====
